---- MODULE Spec2Model ----
(***************************************************************************)
(* Verification model of orval's object resolver (getObject) and of the    *)
(* configuration file loader (loadFile).                                   *)
(*                                                                         *)
(* A JavaScript optional field is a sequence of length 0 (absent) or 1     *)
(* (present, holding the value).  A schema node is a record with one such  *)
(* field per keyword getObject reads.  Generated text is a sequence of     *)
(* tokens, so that the order and the number of emitted pieces is visible.  *)
(***************************************************************************)
EXTENDS Integers, Sequences, FiniteSets, TLC

VARIABLES
  item,          \* getObject: the schema node of the outermost call
  name,          \* getObject: the name argument of the outermost call
  context,       \* getObject: the resolution context of the run
  stack,         \* call stack of getObject / combineSchemas activations
  ret,           \* value handed from a finished callee to its awaiting caller
  outcome,       \* "running", "returned" or "failed" (rejected promise)
  result,        \* what the outermost call resolved to
  resolveCalls,  \* arguments of every resolveObject / resolveValue call made
  combineCalls,  \* arguments of every combineSchemas call made
  cache,         \* loadFile: the module-level Map resolvedPath -> {file|error}
  loads,         \* loadFile: the calls made so far, with their position
  disk           \* loadFile: which default files exist on disk

objVars  == <<item, name, context, stack, ret, outcome, result, resolveCalls, combineCalls>>
loadVars == <<cache, loads, disk>>
vars     == <<item, name, context, stack, ret, outcome, result, resolveCalls,
              combineCalls, cache, loads, disk>>

----------------------------------------------------------------------------
(* Bounds of the model *)

MaxProps == 2      \* longest properties map of a generated object node
MaxDepth == 2      \* deepest inline nesting of a generated node
MaxLoads == 3      \* number of loadFile calls made in one process

----------------------------------------------------------------------------
(* JavaScript values *)

Absent == <<>>

Some(v) == <<v>>

Present(f) == Len(f) > 0

Val(f) == f[1]

\* Boolean(x) of an optional string: undefined and '' are falsy
TruthyString(f) == Present(f) /\ Val(f) # ""

\* Boolean(x) of an optional boolean
TruthyBool(f) == Present(f) /\ Val(f) = TRUE

isReference(property) == TruthyString(property.ref)

isBoolean(x) == x.kind = "boolean"

\* Boolean(x) of a value that is a boolean flag or an object
Truthy(x) == ~(isBoolean(x) /\ x.b = FALSE)

----------------------------------------------------------------------------
(* Schema nodes *)

EmptySchema ==
  [ref |-> Absent, allOf |-> Absent, oneOf |-> Absent, anyOf |-> Absent,
   properties |-> Absent, required |-> Absent, additionalProperties |-> Absent,
   type |-> Absent, readOnly |-> Absent, description |-> Absent]

Ref(ptr) == [EmptySchema EXCEPT !.ref = Some(ptr)]

Typed(t) == [EmptySchema EXCEPT !.type = Some(t)]

Entry(k, s) == [key |-> k, schema |-> s]

Obj(entries) == [EmptySchema EXCEPT !.type = Some("object"), !.properties = Some(entries)]

BoolFlag(b) == [kind |-> "boolean", b |-> b]

SchemaValue(s) == [kind |-> "schema", schema |-> s]

ArrayOf(keys) == [kind |-> "array", items |-> keys]

StringOf(s) == [kind |-> "string", str |-> s]

\* lodash.omit(item, key)
omit(node, key) == [node EXCEPT ![key] = Absent]

----------------------------------------------------------------------------
(* String primitives consumed by getObject *)

\* utils/case pascal: the alphanumeric words of s, each capitalised, joined
pascal(s) ==
  CASE s = "pet"      -> "Pet"
    [] s = "status"   -> "Status"
    [] s = "id"       -> "Id"
    [] s = "pet-name" -> "PetName"
    [] OTHER          -> s

\* getters/keys getKey: a key that is no identifier is quoted
getKey(key) == IF key = "pet-name" THEN "'" \o key \o "'" ELSE key

\* utils/doc jsDoc(schema, true): the doc comment of a described schema
jsDoc(schema) ==
  IF TruthyString(schema.description)
  THEN "/** " \o Val(schema.description) \o " */\n"
  ELSE ""

----------------------------------------------------------------------------
(* Generated text and resolver values *)

Text(s) == [t |-> "text", s |-> s]

OpenBrace == [t |-> "{"]

CloseBrace == [t |-> "\n}"]

Member(doc, readonly, key, optional, value) ==
  [t |-> "member", doc |-> doc, readonly |-> readonly, key |-> key,
   optional |-> optional, value |-> value]

Import(n, k) == [name |-> n, specKey |-> k]

ResolverValue(value, imports, schemas, isRef) ==
  [value |-> value, imports |-> imports, schemas |-> schemas,
   isEnum |-> FALSE, type |-> "object", isRef |-> isRef]

----------------------------------------------------------------------------
(* Resolution context and the reference resolver *)

Target == "petstore.yaml"

Other == "other.yaml"

PetPtr == "#/components/schemas/Pet"

NodePtr == "#/components/schemas/Node"

LoopPtr == "#/components/schemas/Loop"

PingPtr == "#/components/schemas/Ping"

PongPtr == "#/components/schemas/Pong"

TagPtr == "other.yaml#/components/schemas/Tag"

GonePtr == "#/components/schemas/Gone"

\* the parse of a reference pointer into (document, schema name)
Pointers ==
  { [ptr |-> PetPtr,  file |-> Absent,      schemaName |-> "Pet"],
    [ptr |-> NodePtr, file |-> Absent,      schemaName |-> "Node"],
    [ptr |-> LoopPtr, file |-> Absent,      schemaName |-> "Loop"],
    [ptr |-> PingPtr, file |-> Absent,      schemaName |-> "Ping"],
    [ptr |-> PongPtr, file |-> Absent,      schemaName |-> "Pong"],
    [ptr |-> TagPtr,  file |-> Some(Other), schemaName |-> "Tag"],
    [ptr |-> GonePtr, file |-> Absent,      schemaName |-> "Gone"] }

ParsePointer(ptr) == CHOOSE p \in Pointers : p.ptr = ptr

Document(schemas) == [components |-> Some([schemas |-> Some(schemas)])]

\* context.specs[key]?.components?.schemas?.[schemaName]
HasSchema(ctx, key, schemaName) ==
  /\ key \in DOMAIN ctx.specs
  /\ Present(ctx.specs[key].components)
  /\ Present(Val(ctx.specs[key].components).schemas)
  /\ schemaName \in DOMAIN Val(Val(ctx.specs[key].components).schemas)

SchemaOf(ctx, key, schemaName) ==
  Val(Val(ctx.specs[key].components).schemas)[schemaName]

\* getters/ref getRefInfo: the name and the document of the referenced entity
getRefInfo(ptr, ctx) ==
  LET p == ParsePointer(ptr)
      specKey == IF Present(p.file) THEN Val(p.file) ELSE ctx.target
  IN  [name |-> pascal(p.schemaName), specKey |-> specKey,
       resolvable |-> HasSchema(ctx, specKey, p.schemaName)]

StringSchema == Typed("string")

DescribedString ==
  [EmptySchema EXCEPT !.type = Some("string"), !.readOnly = Some(TRUE),
                      !.description = Some("tag")]

\* the schemas every target document declares: Node refers to itself through a
\* property, Loop is a bare self reference, Ping and Pong refer to each other
BaseSchemas ==
  [n \in {"Pet", "Node", "Loop", "Ping", "Pong"} |->
     CASE n = "Pet"  -> Obj(<<Entry("id", StringSchema)>>)
       [] n = "Node" -> Obj(<<Entry("id", Ref(NodePtr))>>)
       [] n = "Loop" -> Ref(LoopPtr)
       [] n = "Ping" -> Ref(PongPtr)
       [] n = "Pong" -> Ref(PingPtr)]

WithSchemas(names) ==
  [n \in DOMAIN BaseSchemas \cup names |->
     IF n \in DOMAIN BaseSchemas THEN BaseSchemas[n] ELSE StringSchema]

OtherDocument == Document([n \in {"Tag", "PetStatus", "PetId"} |-> StringSchema])

Context(names) ==
  [target |-> Target,
   specs  |-> [k \in {Target, Other} |->
                 IF k = Target THEN Document(WithSchemas(names)) ELSE OtherDocument]]

\* a context whose target document declares no components at all
BareContext ==
  [target |-> Target,
   specs  |-> [k \in {Target, Other} |->
                 IF k = Target THEN [components |-> Absent] ELSE OtherDocument]]

Contexts ==
  { Context({}), Context({"PetStatus"}), Context({"PetStatus", "PetStatusProperty"}),
    BareContext }

----------------------------------------------------------------------------
(* getObject: the parts that are pure functions of the node *)

\* the if-chain with the reference test made after the shape tests
BranchReferenceLast(node) ==
  IF Present(node.allOf) THEN "allOf"
  ELSE IF Present(node.oneOf) THEN "oneOf"
  ELSE IF Present(node.anyOf) THEN "anyOf"
  ELSE IF Present(node.properties) /\ Len(Val(node.properties)) > 0 THEN "properties"
  ELSE IF Present(node.additionalProperties) /\ Truthy(Val(node.additionalProperties))
       THEN "additionalProperties"
  ELSE IF isReference(node) THEN "ref"
  ELSE "fallback"

\* the if-chain of getObject: the first test that succeeds decides the branch
Branch(node) ==
  IF isReference(node) THEN "ref"
  ELSE IF Present(node.allOf) THEN "allOf"
  ELSE IF Present(node.oneOf) THEN "oneOf"
  ELSE IF Present(node.anyOf) THEN "anyOf"
  ELSE IF Present(node.properties) /\ Len(Val(node.properties)) > 0 THEN "properties"
  ELSE IF Present(node.additionalProperties) /\ Truthy(Val(node.additionalProperties))
       THEN "additionalProperties"
  ELSE "fallback"

\* the value returned for a reference node
ReferenceValue(info) ==
  ResolverValue(<<Text(info.name)>>, <<Import(info.name, info.specKey)>>, <<>>, TRUE)

\* the residual object put first instead of last
CompositionItemsResidualFirst(node, K) ==
  IF Present(node.properties)
  THEN <<omit(node, K)>> \o Val(node[K])
  ELSE Val(node[K])

\* items: item.properties ? [...item[K], omit(item, K)] : item[K]
CompositionItems(node, K) ==
  IF Present(node.properties)
  THEN Append(Val(node[K]), omit(node, K))
  ELSE Val(node[K])

\* the argument record of the combineSchemas call of the branch K
CombineArguments(node, nm, K) ==
  [items |-> CompositionItems(node, K), name |-> nm, separator |-> K]

\* item.required.includes(key) without the Array.isArray guard: a string matches
isRequiredUnguarded(node, key) ==
  /\ Present(node.required)
  /\ IF Val(node.required).kind = "array"
     THEN \E i \in 1..Len(Val(node.required).items) : Val(node.required).items[i] = key
     ELSE Val(node.required).str = key

\* (Array.isArray(item.required) ? item.required : []).includes(key)
isRequired(node, key) ==
  LET required == IF Present(node.required) /\ Val(node.required).kind = "array"
                  THEN Val(node.required).items
                  ELSE <<>>
  IN  \E i \in 1..Len(required) : required[i] = key

\* name ? pascal(name) + pascal(key) : undefined
CandidateName(nm, key) ==
  IF TruthyString(nm) THEN Some(pascal(Val(nm)) \o pascal(key)) ELSE Absent

\* the lookup made in every loaded document instead of the target document
isNameAlreadyTakenAnywhere(ctx, candidate) ==
  \E k \in DOMAIN ctx.specs :
    HasSchema(ctx, k, IF TruthyString(candidate) THEN Val(candidate) ELSE "")

\* !!context.specs[context.target]?.components?.schemas?.[propName || '']
isNameAlreadyTaken(ctx, candidate) ==
  HasSchema(ctx, ctx.target, IF TruthyString(candidate) THEN Val(candidate) ELSE "")

\* the propName handed to resolveObject for one property
propName(nm, key, ctx) ==
  LET candidate == CandidateName(nm, key)
  IN  IF isNameAlreadyTaken(ctx, candidate)
      THEN Some((IF Present(candidate) THEN Val(candidate) ELSE "undefined") \o "Property")
      ELSE candidate

\* item.readOnly || schema.readOnly
isReadOnly(node, schema) == TruthyBool(node.readOnly) \/ TruthyBool(schema.readOnly)

\* the member declaration one property contributes to the body text
MemberDeclaration(node, key, schema, resolvedValue) ==
  LET doc == jsDoc(schema)
  IN  Member(IF doc # "" THEN doc \o "  " ELSE "",
             isReadOnly(node, schema),
             getKey(key),
             ~isRequired(node, key),
             resolvedValue.value)

\* the initial accumulator of the property fold
InitialAccumulator ==
  [imports |-> <<>>, schemas |-> <<>>, value |-> <<>>, isEnum |-> FALSE,
   type |-> "object", isRef |-> FALSE, schema |-> "{}"]

\* the reducer with the member put in front of the accumulated text
ReducerPrepends(acc, node, entry, index, arrLength, resolvedValue) ==
  LET opened == IF index = 0
                THEN [acc EXCEPT !.value = @ \o <<OpenBrace>>]
                ELSE acc
      added  == [opened EXCEPT
                   !.imports = @ \o resolvedValue.imports,
                   !.value   = <<MemberDeclaration(node, entry.key, entry.schema,
                                                    resolvedValue)>> \o @,
                   !.schemas = @ \o resolvedValue.schemas]
  IN  IF arrLength - 1 = index
      THEN [added EXCEPT !.value = @ \o <<CloseBrace>>]
      ELSE added

\* the reducer's work after resolveObject has resolved, for the entry at index
\* (0-based) of an entry list of length arrLength
Reducer(acc, node, entry, index, arrLength, resolvedValue) ==
  LET opened == IF index = 0
                THEN [acc EXCEPT !.value = @ \o <<OpenBrace>>]
                ELSE acc
      added  == [opened EXCEPT
                   !.imports = @ \o resolvedValue.imports,
                   !.value   = @ \o <<MemberDeclaration(node, entry.key, entry.schema,
                                                         resolvedValue)>>,
                   !.schemas = @ \o resolvedValue.schemas]
  IN  IF arrLength - 1 = index
      THEN [added EXCEPT !.value = @ \o <<CloseBrace>>]
      ELSE added

\* the value returned for additionalProperties: true
OpenRecord ==
  ResolverValue(<<Text("{ [key: string]: any }")>>, <<>>, <<>>, FALSE)

\* the index record built without the resolved value's imports
IndexRecordDropsImports(resolvedValue) ==
  ResolverValue(<<Text("{[key: string]: ")>> \o resolvedValue.value \o <<Text("}")>>,
                <<>>, resolvedValue.schemas, FALSE)

\* the value returned for an additionalProperties schema that resolved
IndexRecord(resolvedValue) ==
  ResolverValue(<<Text("{[key: string]: ")>> \o resolvedValue.value \o <<Text("}")>>,
                resolvedValue.imports, resolvedValue.schemas, FALSE)

\* the fallback that tests item.type for presence only
FallbackAnyType(node) ==
  ResolverValue(<<Text(IF Present(node.type) THEN "{}" ELSE "unknown")>>,
                <<>>, <<>>, FALSE)

\* the value returned when no shape is recognised
Fallback(node) ==
  ResolverValue(<<Text(IF node.type = Some("object") THEN "{}" ELSE "unknown")>>,
                <<>>, <<>>, FALSE)

----------------------------------------------------------------------------
(* The value resolver and the activations of the call stack *)

GetObjectFrame(node, nm) ==
  [fn |-> "getObject", item |-> node, name |-> nm, pc |-> "start", index |-> 0,
   acc |-> InitialAccumulator, settled |-> <<>>, propName |-> Absent,
   resolvedValue |-> Absent]

CombineFrame(args) ==
  [fn |-> "combineSchemas", items |-> args.items, name |-> args.name,
   separator |-> args.separator, pc |-> "next", index |-> 0,
   acc |-> [values |-> <<>>, imports |-> <<>>, schemas |-> <<>>]]

isPrimitive(schema) ==
  Present(schema.type) /\ Val(schema.type) \in {"string", "number", "boolean"}

\* resolvers/value resolveValue (resolveObject delegates to it): a reference
\* resolves to its bare name, a primitive to its type name, anything else is
\* handed to getObject
resolveValue(schema, nm, ctx) ==
  IF isReference(schema)
  THEN LET info == getRefInfo(Val(schema.ref), ctx)
       IN  IF info.resolvable
           THEN [kind |-> "value", value |-> ReferenceValue(info)]
           ELSE [kind |-> "error"]
  ELSE IF isPrimitive(schema)
  THEN [kind |-> "value",
        value |-> ResolverValue(<<Text(Val(schema.type))>>, <<>>, <<>>, FALSE)]
  ELSE [kind |-> "call", frame |-> GetObjectFrame(schema, nm)]

Top == stack[Len(stack)]

Below == SubSeq(stack, 1, Len(stack) - 1)

Running == outcome = "running" /\ Len(stack) > 0

InGetObject == Running /\ Top.fn = "getObject"

InCombine == Running /\ Top.fn = "combineSchemas"

Entries(frame) == Val(frame.item.properties)

\* the caller, left as `frame`, awaits the resolution of schema under hint nm
Await(frame, schema, nm) ==
  LET r == resolveValue(schema, nm, context)
  IN  /\ stack' = CASE r.kind = "error" -> <<>>
                    [] r.kind = "call"  -> Append(Append(Below, frame), r.frame)
                    [] OTHER            -> Append(Below, frame)
      /\ ret' = IF r.kind = "value" THEN Some(r.value) ELSE Absent
      /\ outcome' = IF r.kind = "error" THEN "failed" ELSE outcome

----------------------------------------------------------------------------
(* getObject, one action per step between suspension points *)

\* the reference branch continuing with the referenced schema itself
ReferenceStepInto(frame, ctx) ==
  LET p == ParsePointer(Val(frame.item.ref))
  IN  [frame EXCEPT !.item = SchemaOf(ctx, IF Present(p.file) THEN Val(p.file)
                                           ELSE ctx.target, p.schemaName)]

\* lines 29-39 once getRefInfo has resolved: the activation returns the bare name
ReferenceStep(frame, ctx) ==
  [frame EXCEPT !.pc = "return",
                !.acc = ReferenceValue(getRefInfo(Val(frame.item.ref), ctx))]

GetObjectReference ==
  /\ InGetObject /\ Top.pc = "start" /\ Branch(Top.item) = "ref"
  /\ IF getRefInfo(Val(Top.item.ref), context).resolvable
     THEN /\ stack' = Append(Below, ReferenceStep(Top, context))
          /\ outcome' = outcome
     ELSE /\ stack' = <<>>
          /\ outcome' = "failed"
  /\ UNCHANGED <<loadVars, item, name, context, ret, result, resolveCalls, combineCalls>>

GetObjectCombine ==
  /\ InGetObject /\ Top.pc = "start" /\ Branch(Top.item) \in {"allOf", "oneOf", "anyOf"}
  /\ LET args == CombineArguments(Top.item, Top.name, Branch(Top.item))
     IN  /\ stack' = Append(Append(Below, [Top EXCEPT !.pc = "combined"]), CombineFrame(args))
         /\ combineCalls' = Append(combineCalls, [node |-> Top.item, args |-> args])
  /\ UNCHANGED <<loadVars, item, name, context, ret, outcome, result, resolveCalls>>

GetObjectCombined ==
  /\ InGetObject /\ Top.pc = "combined" /\ Present(ret)
  /\ stack' = Append(Below, [Top EXCEPT !.pc = "return", !.acc = Val(ret)])
  /\ ret' = Absent
  /\ UNCHANGED <<loadVars, item, name, context, outcome, result, resolveCalls, combineCalls>>

\* line 74-76: asyncReduce is entered with the entries and the initial accumulator
GetObjectProperties ==
  /\ InGetObject /\ Top.pc = "start" /\ Branch(Top.item) = "properties"
  /\ stack' = Append(Below, [Top EXCEPT !.pc = "reduce", !.index = 0,
                                        !.acc = InitialAccumulator])
  /\ UNCHANGED <<loadVars, item, name, context, ret, outcome, result, resolveCalls, combineCalls>>

\* lines 83-101: the reducer runs up to its await of resolveObject
ReducerCall ==
  /\ InGetObject /\ Top.pc = "reduce"
  /\ LET entry == Entries(Top)[Top.index + 1]
         hint  == propName(Top.name, entry.key, context)
     IN  /\ stack' = Append(Below, [Top EXCEPT !.pc = "await", !.propName = hint])
         /\ resolveCalls' = Append(resolveCalls,
              [by |-> "getObject", parent |-> Top.name, key |-> Some(entry.key),
               schema |-> entry.schema, name |-> hint])
  /\ UNCHANGED <<loadVars, item, name, context, ret, outcome, result, combineCalls>>

HasSettled(frame, i) == \E j \in 1..Len(frame.settled) : frame.settled[j] = i

\* the work underneath the sub-resolution of entry i finishes; entries finish in
\* any order, also before the fold has reached them; settled keeps the order
SubResolutionSettles(i) ==
  /\ InGetObject /\ Top.pc \in {"reduce", "await"}
  /\ i \in 1..Len(Entries(Top)) /\ ~HasSettled(Top, i)
  /\ stack' = Append(Below, [Top EXCEPT !.settled = Append(@, i)])
  /\ UNCHANGED <<loadVars, item, name, context, ret, outcome, result, resolveCalls, combineCalls>>

\* resolveObject of the awaited entry resolves, or calls getObject for it
ReducerResolve ==
  /\ InGetObject /\ Top.pc = "await" /\ HasSettled(Top, Top.index + 1)
  /\ Await([Top EXCEPT !.pc = "resume"], Entries(Top)[Top.index + 1].schema, Top.propName)
  /\ UNCHANGED <<loadVars, item, name, context, result, resolveCalls, combineCalls>>

\* utils/async-reduce asyncReduce: the accumulator a step returned is handed to
\* the step of the next entry, and is the result after the last entry
asyncReduce(frame, acc, arrLength) ==
  [frame EXCEPT !.acc = acc, !.index = @ + 1,
                !.pc = IF frame.index + 1 = arrLength THEN "return" ELSE "reduce"]

\* lines 103-120: the reducer resumes with the resolved value and returns acc
ReducerResume ==
  /\ InGetObject /\ Top.pc = "resume" /\ Present(ret)
  /\ LET n   == Len(Entries(Top))
         acc == Reducer(Top.acc, Top.item, Entries(Top)[Top.index + 1], Top.index, n, Val(ret))
     IN  stack' = Append(Below, asyncReduce([Top EXCEPT !.resolvedValue = ret], acc, n))
  /\ ret' = Absent
  /\ UNCHANGED <<loadVars, item, name, context, outcome, result, resolveCalls, combineCalls>>

\* lines 134-149
GetObjectAdditionalProperties ==
  /\ InGetObject /\ Top.pc = "start" /\ Branch(Top.item) = "additionalProperties"
  /\ LET ap == Val(Top.item.additionalProperties)
     IN  IF isBoolean(ap)
         THEN /\ stack' = Append(Below, [Top EXCEPT !.pc = "return", !.acc = OpenRecord])
              /\ UNCHANGED <<ret, outcome, resolveCalls>>
         ELSE /\ Await([Top EXCEPT !.pc = "additional"], ap.schema, Top.name)
              /\ resolveCalls' = Append(resolveCalls,
                   [by |-> "getObject", parent |-> Top.name, key |-> Absent,
                    schema |-> ap.schema, name |-> Top.name])
  /\ UNCHANGED <<loadVars, item, name, context, result, combineCalls>>

\* lines 150-157
GetObjectAdditionalResolved ==
  /\ InGetObject /\ Top.pc = "additional" /\ Present(ret)
  /\ stack' = Append(Below, [Top EXCEPT !.pc = "return", !.resolvedValue = ret,
                                        !.acc = IndexRecord(Val(ret))])
  /\ ret' = Absent
  /\ UNCHANGED <<loadVars, item, name, context, outcome, result, resolveCalls, combineCalls>>

\* lines 160-167
GetObjectFallback ==
  /\ InGetObject /\ Top.pc = "start" /\ Branch(Top.item) = "fallback"
  /\ stack' = Append(Below, [Top EXCEPT !.pc = "return", !.acc = Fallback(Top.item)])
  /\ UNCHANGED <<loadVars, item, name, context, ret, outcome, result, resolveCalls, combineCalls>>

\* an activation's promise resolves: its awaiting caller, or the outside, gets acc
Return ==
  /\ Running /\ Top.pc = "return"
  /\ stack' = Below
  /\ IF Len(stack) = 1
     THEN /\ result' = Some(Top.acc)
          /\ outcome' = "returned"
          /\ ret' = Absent
     ELSE /\ ret' = Some(Top.acc)
          /\ UNCHANGED <<result, outcome>>
  /\ UNCHANGED <<loadVars, item, name, context, resolveCalls, combineCalls>>

----------------------------------------------------------------------------
(* combineSchemas: every item is resolved in list order and the values joined *)

Operator(separator) == IF separator = "allOf" THEN Text(" & ") ELSE Text(" | ")

RECURSIVE Join(_, _)
Join(values, sep) ==
  IF Len(values) = 0 THEN <<>>
  ELSE IF Len(values) = 1 THEN values[1]
  ELSE values[1] \o <<sep>> \o Join(Tail(values), sep)

CombineResolve ==
  /\ InCombine /\ Top.pc = "next" /\ Top.index < Len(Top.items)
  /\ Await([Top EXCEPT !.pc = "resume"], Top.items[Top.index + 1], Top.name)
  /\ resolveCalls' = Append(resolveCalls,
       [by |-> "combineSchemas", parent |-> Top.name, key |-> Absent,
        schema |-> Top.items[Top.index + 1], name |-> Top.name])
  /\ UNCHANGED <<loadVars, item, name, context, result, combineCalls>>

CombineResume ==
  /\ InCombine /\ Top.pc = "resume" /\ Present(ret)
  /\ stack' = Append(Below,
       [Top EXCEPT !.pc = "next", !.index = @ + 1,
                   !.acc = [values  |-> Append(@.values, Val(ret).value),
                            imports |-> @.imports \o Val(ret).imports,
                            schemas |-> @.schemas \o Val(ret).schemas]])
  /\ ret' = Absent
  /\ UNCHANGED <<loadVars, item, name, context, outcome, result, resolveCalls, combineCalls>>

\* the combination is returned inline or, under a name, as a named schema
CombineFinish(named) ==
  /\ InCombine /\ Top.pc = "next" /\ Top.index = Len(Top.items)
  /\ named => TruthyString(Top.name)
  /\ LET joined == Join(Top.acc.values, Operator(Top.separator))
         value  == IF named
                   THEN ResolverValue(<<Text(Val(Top.name))>>, Top.acc.imports,
                          Top.acc.schemas \o <<[name |-> Val(Top.name), model |-> joined]>>,
                          FALSE)
                   ELSE ResolverValue(joined, Top.acc.imports, Top.acc.schemas, FALSE)
     IN  stack' = Append(Below, [Top EXCEPT !.pc = "return", !.acc = value])
  /\ UNCHANGED <<loadVars, item, name, context, ret, outcome, result, resolveCalls, combineCalls>>

----------------------------------------------------------------------------
(* The calls the model makes of getObject *)

Keys == {"status", "id", "pet-name"}

Injective(s) == \A i, j \in 1..Len(s) : s[i] = s[j] => i = j

KeyLists(n) == {ks \in UNION {[1..k -> Keys] : k \in 1..n} : Injective(ks)}

IdObject == Obj(<<Entry("id", StringSchema)>>)

PetAndObject == [EmptySchema EXCEPT !.allOf = Some(<<Ref(PetPtr), Typed("object")>>)]

\* objects with up to MaxProps properties, in every order of their keys
FlatMembers == {StringSchema, DescribedString, Ref(NodePtr)}

EntryLists(n, members) ==
  UNION {{[i \in 1..Len(ks) |-> Entry(ks[i], ms[i])] : ms \in [1..Len(ks) -> members]}
          : ks \in KeyLists(n)}

RequiredVariants(entries) ==
  { Obj(entries),
    [Obj(entries) EXCEPT !.required = Some(ArrayOf(<<entries[1].key>>))],
    [Obj(entries) EXCEPT !.required = Some(StringOf(entries[1].key))],
    [Obj(entries) EXCEPT !.readOnly = Some(TRUE), !.type = Absent] }

FlatObjects == UNION {RequiredVariants(e) : e \in EntryLists(MaxProps, FlatMembers)}

\* objects nested up to MaxDepth deep
Leaves == {StringSchema, Ref(TagPtr), Typed("object"), PetAndObject}

RECURSIVE Chains(_)
Chains(d) ==
  IF d = 0 THEN {}
  ELSE {Obj(<<Entry(k, m)>>) : k \in Keys, m \in Leaves \cup Chains(d - 1)}

NestedObjects ==
  Chains(MaxDepth)
    \cup {Obj(<<Entry("status", m), Entry("id", StringSchema)>>) : m \in Chains(1)}

\* reference nodes, bare and with stray sibling keys
Siblings ==
  { EmptySchema, IdObject, PetAndObject,
    [EmptySchema EXCEPT !.additionalProperties = Some(BoolFlag(TRUE))],
    [IdObject EXCEPT !.oneOf = Some(<<StringSchema>>),
                     !.additionalProperties = Some(SchemaValue(StringSchema)),
                     !.required = Some(ArrayOf(<<"id">>))] }

ReferenceNodes ==
  {[sib EXCEPT !.ref = Some(ptr)] :
     sib \in Siblings, ptr \in {PetPtr, LoopPtr, PingPtr, TagPtr, GonePtr}}

\* nodes with one or several composition keywords, with and without properties
ItemLists == {<<Ref(PetPtr), StringSchema>>, <<IdObject>>}

OptionalLists == {Absent} \cup {Some(l) : l \in ItemLists}

CompositionNodes ==
  {n \in {[EmptySchema EXCEPT !.allOf = a, !.oneOf = o, !.anyOf = y, !.properties = p] :
            a \in OptionalLists \cup {Some(<<>>)}, o \in OptionalLists,
            y \in OptionalLists,
            p \in {Absent, Some(<<>>), Some(<<Entry("id", StringSchema)>>)}} :
     Present(n.allOf) \/ Present(n.oneOf) \/ Present(n.anyOf)}

\* nodes without composition and without a non-empty properties map
ShapelessNodes ==
  {[EmptySchema EXCEPT !.type = t, !.properties = p, !.additionalProperties = ap,
                       !.required = r] :
     t \in {Absent, Some("object"), Some("string")},
     p \in {Absent, Some(<<>>)},
     r \in {Absent, Some(StringOf("id"))},
     ap \in {Absent, Some(BoolFlag(TRUE)), Some(BoolFlag(FALSE)),
             Some(SchemaValue(StringSchema)), Some(SchemaValue(Ref(PetPtr))),
             Some(SchemaValue(Ref(GonePtr))), Some(SchemaValue(EmptySchema)),
             Some(SchemaValue(IdObject)), Some(SchemaValue(PetAndObject))}}

Names == {Absent, Some("pet")}

Call(node, nm, ctx) == [item |-> node, name |-> nm, context |-> ctx]

Inputs ==
  {Call(n, Absent, Context({})) : n \in FlatObjects}
    \cup {Call(n, nm, ctx) : n \in NestedObjects, nm \in Names \cup {Some("")},
                             ctx \in Contexts}
    \cup {Call(n, nm, ctx) : n \in ReferenceNodes, nm \in Names,
                             ctx \in {Context({}), BareContext}}
    \cup {Call(n, nm, Context({"PetStatus"})) : n \in CompositionNodes, nm \in Names}
    \cup {Call(n, nm, ctx) : n \in ShapelessNodes, nm \in Names,
                             ctx \in {Context({}), BareContext}}

----------------------------------------------------------------------------
(* The specification of one getObject call *)

LoadIdle ==
  /\ cache = <<>>
  /\ loads = <<>>
  /\ disk = {}

Init ==
  /\ \E c \in Inputs :
       /\ item = c.item
       /\ name = c.name
       /\ context = c.context
       /\ stack = <<GetObjectFrame(c.item, c.name)>>
  /\ ret = Absent
  /\ outcome = "running"
  /\ result = Absent
  /\ resolveCalls = <<>>
  /\ combineCalls = <<>>
  /\ LoadIdle

Next ==
  \/ GetObjectReference
  \/ GetObjectCombine
  \/ GetObjectCombined
  \/ GetObjectProperties
  \/ ReducerCall
  \/ \E i \in 1..Cardinality(Keys) : SubResolutionSettles(i)
  \/ ReducerResolve
  \/ ReducerResume
  \/ GetObjectAdditionalProperties
  \/ GetObjectAdditionalResolved
  \/ GetObjectFallback
  \/ CombineResolve
  \/ CombineResume
  \/ \E named \in BOOLEAN : CombineFinish(named)
  \/ Return

Spec == Init /\ [][Next]_vars

\* every step is a continuation the event loop runs once it is runnable
FairSpec == Spec /\ WF_vars(Next)

----------------------------------------------------------------------------
(* loadFile and its module-level cache *)

Cwd == "C:\\app\\"

ConfigName == "orval.config"

FilePaths == {"orval.config.ts", "./orval.config.ts", "orval.config.js"}

\* path.resolve(filePath), from the working directory
resolveFilePath(filePath) ==
  CASE filePath = "orval.config.ts"   -> Cwd \o "orval.config.ts"
    [] filePath = "./orval.config.ts" -> Cwd \o "orval.config.ts"
    [] filePath = "orval.config.js"   -> Cwd \o "orval.config.js"

\* path.resolve(root, `${defaultFileName}.${extension}`)
resolveDefault(defaultFileName, extension) == Cwd \o defaultFileName \o "." \o extension

\* filePath.endsWith('.ts')
endsWithTs(filePath) == filePath \in {"orval.config.ts", "./orval.config.ts"}

\* upath normalizeSafe: the separators become forward slashes
normalizeSafe(path) ==
  CASE path = Cwd \o "orval.config.ts"  -> "C:/app/orval.config.ts"
    [] path = Cwd \o "orval.config.js"  -> "C:/app/orval.config.js"
    [] path = Cwd \o "orval.config.mjs" -> "C:/app/orval.config.mjs"

\* lines 66-97: resolvedPath, isTS and isMjs of a call
Resolution(filePath, defaultFileName, files) ==
  IF TruthyString(filePath)
  THEN [resolvedPath |-> Some(resolveFilePath(Val(filePath))),
        isTS |-> endsWithTs(Val(filePath)), isMjs |-> FALSE]
  ELSE IF TruthyString(defaultFileName)
  THEN LET jsFile  == resolveDefault(Val(defaultFileName), "js")
           mjsFile == resolveDefault(Val(defaultFileName), "mjs")
           tsFile  == resolveDefault(Val(defaultFileName), "ts")
       IN  IF jsFile \in files
           THEN [resolvedPath |-> Some(jsFile), isTS |-> FALSE, isMjs |-> FALSE]
           ELSE IF mjsFile \in files
           THEN [resolvedPath |-> Some(mjsFile), isTS |-> FALSE, isMjs |-> TRUE]
           ELSE IF tsFile \in files
           THEN [resolvedPath |-> Some(tsFile), isTS |-> TRUE, isMjs |-> FALSE]
           ELSE [resolvedPath |-> Absent, isTS |-> FALSE, isMjs |-> FALSE]
  ELSE [resolvedPath |-> Absent, isTS |-> FALSE, isMjs |-> FALSE]

\* what a load can produce: the file's content may differ from load to load
Files == {"configA", "configB"}

Errors == {"SyntaxError"}

\* what require(resolvedPath) can do: return a truthy or a falsy module, throw
\* an error the loader ignores (ES module syntax), or throw another error
RequireOutcomes ==
  {[kind |-> "module", file |-> f] : f \in Files}
    \cup {[kind |-> "falsy"], [kind |-> "esm"]}
    \cup {[kind |-> "throw", error |-> e] : e \in Errors}

FileEntry(f) == [file |-> Some(f), error |-> Absent]

ErrorEntry(e) == [file |-> Absent, error |-> Some(e)]

\* cache.set(key, entry)
cacheSet(map, key, entry) ==
  [k \in DOMAIN map \cup {key} |-> IF k = key THEN entry ELSE map[k]]

\* { path, ...cachedData, cached: true }
CachedReturn(path, entry) ==
  [path |-> path, file |-> entry.file, error |-> entry.error, cached |-> Some(TRUE)]

\* { path, file } and { path, error }
FreshReturn(path, entry) ==
  [path |-> path, file |-> entry.file, error |-> entry.error, cached |-> Absent]

Exited == \E i \in 1..Len(loads) : loads[i].pc = "exit"

Completed == {i \in 1..Len(loads) : loads[i].pc = "done"}

LoadCall(r, pc, returned, worked) ==
  [resolvedPath |-> r.resolvedPath, isTS |-> r.isTS, isMjs |-> r.isMjs, pc |-> pc,
   returned |-> returned, worked |-> worked, after |-> Completed]

\* a call of loadFile, up to its return or to its await of bundleFile
\* (lines 57-157); after records the calls that had completed when it began
LoadFileCall(filePath, defaultFileName, required) ==
  /\ ~Exited /\ Len(loads) < MaxLoads
  /\ LET r == Resolution(filePath, defaultFileName, disk)
         rp == Val(r.resolvedPath)
     IN  IF ~Present(r.resolvedPath)
         THEN /\ loads' = Append(loads, LoadCall(r, "exit", Absent, FALSE))
              /\ cache' = cache
         ELSE IF rp \in DOMAIN cache
         THEN /\ loads' = Append(loads,
                   LoadCall(r, "done", Some(CachedReturn(normalizeSafe(rp), cache[rp])), FALSE))
              /\ cache' = cache
         ELSE IF ~r.isTS /\ ~r.isMjs /\ required.kind = "module"
         THEN /\ loads' = Append(loads,
                   LoadCall(r, "done",
                            Some(FreshReturn(normalizeSafe(rp), FileEntry(required.file))), TRUE))
              /\ cache' = cacheSet(cache, rp, FileEntry(required.file))
         ELSE IF ~r.isTS /\ ~r.isMjs /\ required.kind = "throw"
         THEN /\ loads' = Append(loads,
                   LoadCall(r, "done",
                            Some(FreshReturn(normalizeSafe(rp), ErrorEntry(required.error))), TRUE))
              /\ cache' = cacheSet(cache, rp, ErrorEntry(required.error))
         ELSE /\ loads' = Append(loads, LoadCall(r, "bundleFile", Absent, TRUE))
              /\ cache' = cache
  /\ UNCHANGED <<objVars, disk>>

\* the catch block of lines 174-181
Caught(i, e) ==
  /\ cache' = cacheSet(cache, Val(loads[i].resolvedPath), ErrorEntry(e))
  /\ loads' = [loads EXCEPT ![i].pc = "done",
                 ![i].returned = Some(FreshReturn(normalizeSafe(Val(loads[i].resolvedPath)),
                                                  ErrorEntry(e)))]

\* the await of bundleFile ends: with the code, or with a build error
LoadFileBundled(i, built) ==
  /\ ~Exited
  /\ i \in 1..Len(loads) /\ loads[i].pc = "bundleFile"
  /\ IF built = "code"
     THEN /\ loads' = [loads EXCEPT ![i].pc = "loadFromBundledFile"]
          /\ cache' = cache
     ELSE Caught(i, built)
  /\ UNCHANGED <<objVars, disk>>

\* the await of loadFromBundledFile ends: lines 163-173, or the catch block
LoadFileLoaded(i, loaded) ==
  /\ ~Exited
  /\ i \in 1..Len(loads) /\ loads[i].pc = "loadFromBundledFile"
  /\ IF loaded \in Files
     THEN /\ cache' = cacheSet(cache, Val(loads[i].resolvedPath), FileEntry(loaded))
          /\ loads' = [loads EXCEPT ![i].pc = "done",
                         ![i].returned =
                            Some(FreshReturn(normalizeSafe(Val(loads[i].resolvedPath)),
                                             FileEntry(loaded)))]
     ELSE Caught(i, loaded)
  /\ UNCHANGED <<objVars, disk>>

Disks ==
  { {}, {resolveDefault(ConfigName, "ts")},
    {resolveDefault(ConfigName, "mjs"), resolveDefault(ConfigName, "ts")},
    {resolveDefault(ConfigName, "js"), resolveDefault(ConfigName, "ts")} }

LoadInit ==
  /\ item = EmptySchema
  /\ name = Absent
  /\ context = BareContext
  /\ stack = <<>>
  /\ ret = Absent
  /\ outcome = "idle"
  /\ result = Absent
  /\ resolveCalls = <<>>
  /\ combineCalls = <<>>
  /\ cache = <<>>
  /\ loads = <<>>
  /\ disk \in Disks

LoadNext ==
  \/ \E filePath \in {Absent} \cup {Some(p) : p \in FilePaths},
        defaultFileName \in {Absent, Some(ConfigName)},
        required \in RequireOutcomes :
       LoadFileCall(filePath, defaultFileName, required)
  \/ \E i \in 1..MaxLoads, built \in {"code"} \cup Errors : LoadFileBundled(i, built)
  \/ \E i \in 1..MaxLoads, loaded \in Files \cup Errors : LoadFileLoaded(i, loaded)

LoadSpec == LoadInit /\ [][LoadNext]_vars

----------------------------------------------------------------------------
(* Vocabulary of the properties *)

HasComposition(node) ==
  Present(node.allOf) \/ Present(node.oneOf) \/ Present(node.anyOf)

HasProperties(node) == Present(node.properties) /\ Len(Val(node.properties)) > 0

\* an inline object schema with a non-empty properties map
PlainObject(node) == ~isReference(node) /\ ~HasComposition(node) /\ HasProperties(node)

GetObjectFrames == {k \in 1..Len(stack) : stack[k].fn = "getObject"}

MembersOf(value) == SelectSeq(value, LAMBDA tok : tok.t = "member")

\* the calls getObject made of resolveObject for a property
PropertyCalls ==
  {k \in 1..Len(resolveCalls) :
     resolveCalls[k].by = "getObject" /\ Present(resolveCalls[k].key)}

Maximum(S) == IF S = {} THEN 0 ELSE CHOOSE m \in S : \A x \in S : x <= m

FirstKeyword(node) ==
  IF Present(node.allOf) THEN "allOf"
  ELSE IF Present(node.oneOf) THEN "oneOf" ELSE "anyOf"

\* the inline nodes directly below a node: reference targets are not among them
InlineChildren(node) ==
  IF isReference(node) THEN {}
  ELSE IF HasComposition(node)
  THEN LET K == FirstKeyword(node)
       IN  {Val(node[K])[i] : i \in 1..Len(Val(node[K]))}
             \cup (IF Present(node.properties) THEN {omit(node, K)} ELSE {})
  ELSE IF HasProperties(node)
  THEN {Val(node.properties)[i].schema : i \in 1..Len(Val(node.properties))}
  ELSE IF Present(node.additionalProperties)
          /\ Val(node.additionalProperties).kind = "schema"
  THEN {Val(node.additionalProperties).schema}
  ELSE {}

\* the inline nesting depth of a node, a reference or a primitive counting 0
RECURSIVE InlineDepth(_)
InlineDepth(node) ==
  IF isReference(node) \/ isPrimitive(node) THEN 0
  ELSE 1 + Maximum({InlineDepth(c) : c \in InlineChildren(node)})

----------------------------------------------------------------------------
(* C1: an activation of getObject on an inline object with properties         *)
(* k1..kn has, at every point of its fold, emitted the member declarations of *)
(* exactly the entries folded so far, in declared order, and returns the text *)
(* '{' member(k1) .. member(kn) '\n}', whatever the order in which the        *)
(* sub-resolutions settled.                                                   *)
C1_OrderPreserved ==
  \A k \in GetObjectFrames :
    LET f  == stack[k]
        es == Val(f.item.properties)
        v  == f.acc.value
        ms == MembersOf(v)
    IN  (PlainObject(f.item) /\ f.pc # "start") =>
          /\ Len(ms) = f.index
          /\ \A i \in 1..f.index : ms[i].key = getKey(es[i].key)
          /\ f.pc = "return" =>
               /\ Len(v) = Len(es) + 2
               /\ v[1] = OpenBrace
               /\ v[Len(es) + 2] = CloseBrace
               /\ \A i \in 1..Len(es) :
                    v[i + 1].t = "member" /\ v[i + 1].key = getKey(es[i].key)

\* an object of two properties returns after the second settled before the first
C1_Witness ==
  /\ Running /\ Top.fn = "getObject" /\ Top.pc = "return"
  /\ PlainObject(Top.item)
  /\ Len(Val(Top.item.properties)) = 2
  /\ Top.settled = <<2, 1>>

(* C2: a call of getObject on a node with a $ref makes no resolveObject,      *)
(* resolveValue or combineSchemas call and starts no further activation, and  *)
(* what it returns is the referenced name, the one import {name, specKey}, no *)
(* schemas and isRef true, whatever sibling keys the node has.                *)
C2_ReferenceShortCircuit ==
  isReference(item) =>
    /\ resolveCalls = <<>>
    /\ combineCalls = <<>>
    /\ Len(stack) <= 1
    /\ outcome = "returned" =>
         LET info == getRefInfo(Val(item.ref), context)
         IN  /\ Val(result).value = <<Text(info.name)>>
             /\ Val(result).imports = <<[name |-> info.name, specKey |-> info.specKey]>>
             /\ Val(result).schemas = <<>>
             /\ Val(result).isRef = TRUE

\* a reference with properties, oneOf, additionalProperties and required returned
C2_Witness ==
  /\ outcome = "returned"
  /\ isReference(item)
  /\ HasProperties(item) /\ Present(item.oneOf) /\ Present(item.additionalProperties)

(* C3: every call of getObject ends (returned or failed), and at no time are  *)
(* there more getObject activations than the inline nesting depth of the node *)
(* of the call allows; references into cycles of the document are not entered *)
C3_Terminates ==
  /\ [](Cardinality(GetObjectFrames) <= 1 + Maximum({InlineDepth(c) : c \in InlineChildren(item)}))
  /\ <>(outcome # "running")

\* a call on a node that refers into a reference cycle has returned
C3_Witness ==
  /\ outcome = "returned"
  /\ isReference(item)
  /\ Val(item.ref) \in {LoopPtr, PingPtr}

(* C4 as stated: for every composition keyword K a non-reference node carries *)
(* the node is delegated to combineSchemas with separator K and with the K    *)
(* list, followed by the node without K when the node has properties.         *)
C4_EveryKeyword ==
  \A k \in 1..Len(combineCalls) :
    LET c == combineCalls[k]
    IN  \A K \in {"allOf", "oneOf", "anyOf"} :
          Present(c.node[K]) =>
            /\ c.args.separator = K
            /\ c.args.items = IF Present(c.node.properties)
                              THEN Val(c.node[K]) \o <<[c.node EXCEPT ![K] = Absent]>>
                              ELSE Val(c.node[K])

(* C4 amended: K is the first of allOf, oneOf, anyOf the node carries; the    *)
(* activation of such a node never enters the property fold or the            *)
(* additionalProperties branch itself.                                        *)
C4_FirstKeyword ==
  /\ \A k \in 1..Len(combineCalls) :
       LET c == combineCalls[k]
           K == FirstKeyword(c.node)
       IN  /\ ~isReference(c.node) /\ HasComposition(c.node)
           /\ c.args.separator = K
           /\ c.args.items = IF Present(c.node.properties)
                             THEN Val(c.node[K]) \o <<[c.node EXCEPT ![K] = Absent]>>
                             ELSE Val(c.node[K])
  /\ \A k \in GetObjectFrames :
       (~isReference(stack[k].item) /\ HasComposition(stack[k].item)) =>
         /\ stack[k].pc \in {"start", "combined", "return"}
         /\ stack[k].pc # "start" =>
              \E j \in 1..Len(combineCalls) : combineCalls[j].node = stack[k].item

\* a node with allOf, oneOf and properties has been combined and returned
C4_Witness ==
  /\ outcome = "returned"
  /\ Present(item.allOf) /\ Present(item.oneOf) /\ HasProperties(item)
  /\ Len(combineCalls) >= 2

(* C5: under a parent name P, the hint passed for the property key is         *)
(* pascal(P) + pascal(key), with 'Property' appended exactly when the target  *)
(* document declares a schema of that name; other documents do not count.     *)
C5_NameHint ==
  \A k \in PropertyCalls :
    LET c    == resolveCalls[k]
        cand == pascal(Val(c.parent)) \o pascal(Val(c.key))
        docs == context.specs
        taken ==
          /\ context.target \in DOMAIN docs
          /\ Present(docs[context.target].components)
          /\ Present(Val(docs[context.target].components).schemas)
          /\ cand \in DOMAIN Val(Val(docs[context.target].components).schemas)
    IN  (Present(c.parent) /\ Val(c.parent) # "") =>
          c.name = IF taken THEN <<cand \o "Property">> ELSE <<cand>>

\* parent pet, key status, PetStatus declared: the hint is PetStatusProperty
C5_Witness ==
  \E k \in PropertyCalls :
    /\ resolveCalls[k].parent = <<"pet">>
    /\ resolveCalls[k].key = <<"status">>
    /\ resolveCalls[k].name = <<"PetStatusProperty">>

(* C6 as stated: without properties, a boolean additionalProperties (true or  *)
(* false) gives the open record, a schema gives the index record of its       *)
(* resolved value with that value's imports and schemas.                      *)
C6_AnyBoolean ==
  \A k \in GetObjectFrames :
    LET f  == stack[k]
        ap == Val(f.item.additionalProperties)
    IN  (/\ f.pc = "return"
         /\ ~isReference(f.item) /\ ~HasComposition(f.item)
         /\ ~Present(f.item.properties) /\ Present(f.item.additionalProperties)) =>
          IF ap.kind = "boolean"
          THEN /\ f.acc.value = <<Text("{ [key: string]: any }")>>
               /\ f.acc.imports = <<>> /\ f.acc.schemas = <<>>
          ELSE /\ Present(f.resolvedValue)
               /\ f.acc.value = <<Text("{[key: string]: ")>> \o Val(f.resolvedValue).value
                                   \o <<Text("}")>>
               /\ f.acc.imports = Val(f.resolvedValue).imports
               /\ f.acc.schemas = Val(f.resolvedValue).schemas

(* C6 amended: the open record is the result for additionalProperties: true;  *)
(* additionalProperties: false is treated as absent ('{}' for type object,    *)
(* 'unknown' otherwise, no imports or schemas); a schema gives the index      *)
(* record of its resolved value with that value's imports and schemas.        *)
C6_TrueOrSchema ==
  \A k \in GetObjectFrames :
    LET f  == stack[k]
        ap == Val(f.item.additionalProperties)
    IN  (/\ f.pc = "return"
         /\ ~isReference(f.item) /\ ~HasComposition(f.item)
         /\ ~Present(f.item.properties) /\ Present(f.item.additionalProperties)) =>
          IF ap.kind = "boolean"
          THEN /\ f.acc.value =
                    IF ap.b THEN <<Text("{ [key: string]: any }")>>
                    ELSE IF f.item.type = <<"object">> THEN <<Text("{}")>>
                    ELSE <<Text("unknown")>>
               /\ f.acc.imports = <<>> /\ f.acc.schemas = <<>>
               /\ f.acc.isRef = FALSE
          ELSE /\ Present(f.resolvedValue)
               /\ \E j \in 1..Len(resolveCalls) :
                    /\ resolveCalls[j].schema = ap.schema
                    /\ resolveCalls[j].key = Absent
                    /\ resolveCalls[j].name = f.name
               /\ f.acc.value = <<Text("{[key: string]: ")>> \o Val(f.resolvedValue).value
                                   \o <<Text("}")>>
               /\ f.acc.imports = Val(f.resolvedValue).imports
               /\ f.acc.schemas = Val(f.resolvedValue).schemas
               /\ f.acc.isRef = FALSE

\* a node of type object with additionalProperties: false has returned '{}'
C6_Witness ==
  /\ Running /\ Top.fn = "getObject" /\ Top.pc = "return"
  /\ ~isReference(Top.item) /\ ~HasComposition(Top.item) /\ ~Present(Top.item.properties)
  /\ Top.item.additionalProperties = <<BoolFlag(FALSE)>>
  /\ Top.acc.value = <<Text("{}")>>

\* whether some reference at or inline below a node cannot be resolved
RECURSIVE Dangles(_, _)
Dangles(node, ctx) ==
  IF isReference(node) THEN ~getRefInfo(Val(node.ref), ctx).resolvable
  ELSE \E c \in InlineChildren(node) : Dangles(c, ctx)

(* C7: a member declaration carries no '?' exactly when the node's required   *)
(* is an array that contains the property's key; an absent or non-array       *)
(* required makes every member optional and never makes the call fail.        *)
C7_RequiredMarker ==
  /\ \A k \in GetObjectFrames :
       LET f  == stack[k]
           es == Val(f.item.properties)
           ms == MembersOf(f.acc.value)
           listed(key) ==
             /\ Present(f.item.required)
             /\ Val(f.item.required).kind = "array"
             /\ \E i \in 1..Len(Val(f.item.required).items) :
                  Val(f.item.required).items[i] = key
       IN  (PlainObject(f.item) /\ f.pc # "start") =>
             \A i \in 1..Len(ms) : ms[i].optional = ~listed(es[i].key)
  /\ (/\ PlainObject(item)
      /\ ~(Present(item.required) /\ Val(item.required).kind = "array")
      /\ outcome = "failed") => Dangles(item, context)

\* an object whose required is a string naming a key returned that key optional
C7_Witness ==
  /\ Running /\ Top.fn = "getObject" /\ Top.pc = "return"
  /\ PlainObject(Top.item)
  /\ Present(Top.item.required) /\ Val(Top.item.required).kind = "string"
  /\ Val(Top.item.required).str = Val(Top.item.properties)[1].key
  /\ MembersOf(Top.acc.value)[1].optional = TRUE

(* C8: a node that is no reference, has no composition keyword, no or an      *)
(* empty properties map and no additionalProperties resolves to '{}' when its *)
(* type is 'object' and to 'unknown' otherwise, with no imports, no schemas   *)
(* and isRef false; a call on such a node never fails.                        *)
C8_Fallback ==
  /\ \A k \in GetObjectFrames :
       LET f == stack[k]
       IN  (/\ f.pc = "return"
            /\ ~isReference(f.item) /\ ~HasComposition(f.item)
            /\ ~HasProperties(f.item) /\ ~Present(f.item.additionalProperties)) =>
             /\ f.acc.value = IF Present(f.item.type) /\ Val(f.item.type) = "object"
                              THEN <<Text("{}")>> ELSE <<Text("unknown")>>
             /\ f.acc.imports = <<>> /\ f.acc.schemas = <<>>
             /\ f.acc.isRef = FALSE
  /\ (/\ ~isReference(item) /\ ~HasComposition(item)
      /\ ~HasProperties(item) /\ ~Present(item.additionalProperties)) =>
       outcome # "failed"

\* a node of type string with an empty properties map returned 'unknown'
C8_Witness ==
  /\ outcome = "returned"
  /\ item.type = <<"string">> /\ item.properties = <<(<<>>)>>
  /\ ~Present(item.additionalProperties)
  /\ Val(result).value = <<Text("unknown")>>

(* C9: the name hint passed for a property is absent or is not the name of a  *)
(* schema the target document declares.                                       *)
C9_HintNeverTaken ==
  \A k \in PropertyCalls :
    LET c == resolveCalls[k]
    IN  \/ c.name = Absent
        \/ ~(/\ context.target \in DOMAIN context.specs
             /\ Present(context.specs[context.target].components)
             /\ Present(Val(context.specs[context.target].components).schemas)
             /\ Val(c.name) \in
                  DOMAIN Val(Val(context.specs[context.target].components).schemas))

SameResult(a, b) == a.file = b.file /\ a.error = b.error

(* C10: once a loadFile call for a resolved path has completed, every call    *)
(* begun later that resolves to the same path returns that call's file or     *)
(* error with cached: true and does no require or bundle; a call that found   *)
(* no cache entry returns without the cached flag and has stored its result   *)
(* under the resolved path.                                                   *)
C10_WriteOnce ==
  \A j \in Completed :
    LET c == loads[j]
    IN  /\ \A i \in c.after :
             loads[i].resolvedPath = c.resolvedPath =>
               /\ Val(c.returned).cached = <<TRUE>>
               /\ SameResult(Val(c.returned), Val(loads[i].returned))
               /\ ~c.worked
        /\ c.worked =>
             /\ Val(c.returned).cached = Absent
             /\ Val(c.resolvedPath) \in DOMAIN cache

\* the same, for the paths on which no two calls were ever in flight together
NonOverlappingWriteOnce ==
  \A j \in Completed :
    LET c == loads[j]
        alone == \A i, k \in 1..Len(loads) :
                   (i < k /\ loads[i].resolvedPath = c.resolvedPath
                          /\ loads[k].resolvedPath = c.resolvedPath) => i \in loads[k].after
    IN  alone =>
          /\ \A i \in c.after :
               loads[i].resolvedPath = c.resolvedPath =>
                 /\ Val(c.returned).cached = <<TRUE>>
                 /\ SameResult(Val(c.returned), Val(loads[i].returned))
                 /\ ~c.worked
          /\ c.worked =>
               /\ Val(c.returned).cached = Absent
               /\ cache[Val(c.resolvedPath)].file = Val(c.returned).file
               /\ cache[Val(c.resolvedPath)].error = Val(c.returned).error

====
